---- MODULE Spec2Model ----
(***************************************************************************)
(* Therapeutic context synthesis (scripts/therapeutic_inference_service.py) *)
(* and advice generation (backend/services/openai_service.py).             *)
(*                                                                         *)
(* Confidences are integers in thousandths (0.6 is 600).  One request is   *)
(* followed from the launch of the two branches of asyncio.gather to the   *)
(* returned TherapeuticContext and the TherapeuticAdvice built from it.    *)
(* processing_time_ms is wall-clock time and is left out of the context.   *)
(***************************************************************************)
EXTENDS Integers, Sequences, FiniteSets, TLC

VARIABLES
    pc,                \* where the request is
    searchOutcome,     \* what the similarity oracle did for this request
    searchTask,        \* the semantic_search branch of asyncio.gather
    classifierResult,  \* what the classification oracle returned
    classifyTask,      \* the classify_interventions branch of asyncio.gather
    context,           \* what get_therapeutic_response returned
    adviceOutcome,     \* what the advice oracle did for this request
    advice,            \* what generate_therapeutic_advice returned
    response,          \* what TherapeuticServiceAPI.get_therapeutic_response returned
    calls,             \* how often each oracle was invoked for this request
    service,           \* TherapeuticServiceAPI._service: 0 is None, else the instance
    constructed,       \* how many TherapeuticInferenceService objects were constructed
    tasks,             \* the concurrent requests: where each is, and the instance it got
    running            \* the request the event loop is running, 0 when it runs none

\* the state of one request
requestVars == <<pc, searchOutcome, searchTask, classifierResult, classifyTask,
                 context, adviceOutcome, advice, response, calls>>

\* the state shared by the requests of one process
serviceVars == <<service, constructed, tasks, running>>

vars == <<pc, searchOutcome, searchTask, classifierResult, classifyTask,
          context, adviceOutcome, advice, response, calls,
          service, constructed, tasks, running>>

(***************************************************************************)
(* Bounds of the model.                                                    *)
(***************************************************************************)
\* raw scores range over 0, 0.2, 0.4, ... , MaxScoreIdx * 0.2
MaxScoreIdx == 4

\* number of rows the similarity function may return (at most top_k = 3)
MaxResults == 2

\* number of requests in flight at once in one process
NumRequests == 4

Scores == {i * 200 : i \in 0..MaxScoreIdx}

(***************************************************************************)
(* Category taxonomy and thresholds.                                       *)
(***************************************************************************)
VE == "validation_empathy"

intervention_keys ==
    <<"validation_empathy", "cognitive_restructuring", "behavioral_activation",
      "mindfulness_grounding", "problem_solving", "psychoeducation">>

Keys == {intervention_keys[i] : i \in 1..Len(intervention_keys)}

CategoryLabel ==
    [k \in Keys |->
       CASE k = "validation_empathy"      -> "Validation and Empathy"
         [] k = "cognitive_restructuring" -> "Cognitive Restructuring"
         [] k = "behavioral_activation"   -> "Behavioral Activation"
         [] k = "mindfulness_grounding"   -> "Mindfulness and Grounding"
         [] k = "problem_solving"         -> "Problem Solving"
         [] k = "psychoeducation"         -> "Psychoeducation"]

\* the description strings handed to the classifier (their leading phrase)
CategoryDescription ==
    [k \in Keys |->
       CASE k = "validation_empathy"      -> "expressing understanding"
         [] k = "cognitive_restructuring" -> "challenging thoughts"
         [] k = "behavioral_activation"   -> "encouraging action"
         [] k = "mindfulness_grounding"   -> "present moment awareness"
         [] k = "problem_solving"         -> "solution finding"
         [] k = "psychoeducation"         -> "providing information"]

PrimaryThreshold == 600

\* a table with a prediction threshold above the primary threshold
PredictionThresholdAbovePrimary ==
    [k \in Keys |->
       CASE k = "validation_empathy"      -> 300
         [] k = "behavioral_activation"   -> 300
         [] k = "mindfulness_grounding"   -> 350
         [] k = "problem_solving"         -> 400
         [] k = "psychoeducation"         -> 400
         [] k = "cognitive_restructuring" -> 800]

PredictionThreshold ==
    [k \in Keys |->
       CASE k = "validation_empathy"      -> 300
         [] k = "behavioral_activation"   -> 300
         [] k = "mindfulness_grounding"   -> 350
         [] k = "problem_solving"         -> 400
         [] k = "psychoeducation"         -> 400
         [] k = "cognitive_restructuring" -> 450]

(***************************************************************************)
(* Sequence helpers.                                                       *)
(***************************************************************************)
Min(a, b) == IF a <= b THEN a ELSE b

RECURSIVE SumConfidence(_)
SumConfidence(s) ==
    IF s = <<>> THEN 0 ELSE Head(s).confidence + SumConfidence(Tail(s))

RECURSIVE MaxConfidence(_)
MaxConfidence(s) ==
    IF Len(s) = 1 THEN Head(s).confidence
    ELSE LET m == MaxConfidence(Tail(s))
         IN IF Head(s).confidence >= m THEN Head(s).confidence ELSE m

IsPrimary(p) == p.is_primary
IsPredicted(p) == p.is_predicted

(***************************************************************************)
(* list.sort(key=confidence, reverse=True): a stable sort, so entries with *)
(* equal confidence keep the order they had in the list.                   *)
(***************************************************************************)
\* a sort that puts a later entry before the earlier entries it ties with
RECURSIVE InsertDescBeforeTies(_, _)
InsertDescBeforeTies(sorted, x) ==
    IF sorted = <<>> THEN <<x>>
    ELSE IF Head(sorted).confidence > x.confidence
         THEN <<Head(sorted)>> \o InsertDescBeforeTies(Tail(sorted), x)
         ELSE <<x>> \o sorted

RECURSIVE InsertDesc(_, _)
InsertDesc(sorted, x) ==
    IF sorted = <<>> THEN <<x>>
    ELSE IF Head(sorted).confidence >= x.confidence
         THEN <<Head(sorted)>> \o InsertDesc(Tail(sorted), x)
         ELSE <<x>> \o sorted

RECURSIVE SortDesc(_, _)
SortDesc(done, rest) ==
    IF rest = <<>> THEN done
    ELSE SortDesc(InsertDesc(done, Head(rest)), Tail(rest))

SortByConfidenceDesc(s) == SortDesc(<<>>, s)

(***************************************************************************)
(* The zero-shot classification oracle.  It receives the six descriptions  *)
(* in declaration order and returns {'labels': [...], 'scores': [...]}: the *)
(* same labels, each with its score, listed in an order of the oracle's    *)
(* choosing (as given, or by score descending).                            *)
(***************************************************************************)
OracleOrders == {"as_given", "by_score"}

RawVectors == [Keys -> Scores]

OraclePairs(raw) ==
    [i \in 1..Len(intervention_keys) |->
        [label      |-> CategoryDescription[intervention_keys[i]],
         confidence |-> raw[intervention_keys[i]]]]

ClassifierOracle(raw, order) ==
    LET pairs  == OraclePairs(raw)
        listed == IF order = "by_score" THEN SortByConfidenceDesc(pairs) ELSE pairs
    IN [status |-> "ok",
        labels |-> [i \in 1..Len(listed) |-> listed[i].label],
        scores |-> [i \in 1..Len(listed) |-> listed[i].confidence]]

ClassifierFailure == [status |-> "failed", message |-> "classifier unavailable"]

ClassifierPending == [status |-> "pending"]

\* the score the oracle returned for description d
OracleScoreOf(result, d) ==
    LET i == CHOOSE j \in 1..Len(result.labels) : result.labels[j] = d
    IN result.scores[i]

(***************************************************************************)
(* classify_interventions: the i-th (label, score) pair of the result is   *)
(* given the i-th category key; thresholds set the two flags; the list is  *)
(* sorted by confidence.  Any exception yields the empty list.             *)
(***************************************************************************)
\* is_primary decided by the category's own prediction threshold
InterventionPredictionOwnThreshold(key, score) ==
    [intervention |-> key,
     label        |-> CategoryLabel[key],
     confidence   |-> score,
     is_predicted |-> score >= PredictionThreshold[key],
     is_primary   |-> score >= PredictionThreshold[key]]

InterventionPrediction(key, score) ==
    [intervention |-> key,
     label        |-> CategoryLabel[key],
     confidence   |-> score,
     is_predicted |-> score >= PredictionThreshold[key],
     is_primary   |-> score >= PrimaryThreshold]

\* only the categories that reach their prediction threshold are kept
classify_interventions_predicted_only(result) ==
    IF result.status # "ok" THEN [state |-> "done", value |-> <<>>]
    ELSE LET n == Min(Len(result.labels), Len(result.scores))
             predictions ==
                 [i \in 1..n |->
                     InterventionPrediction(intervention_keys[i], result.scores[i])]
         IN [state |-> "done",
             value |-> SelectSeq(SortByConfidenceDesc(predictions), IsPredicted)]

\* a handler that logs and re-raises
ClassifyHandlerReraise(message) == [state |-> "raised", message |-> message]

\* "except Exception as e: ... return []"
ClassifyHandler(message) == [state |-> "done", value |-> <<>>]

classify_interventions(result) ==
    IF result.status # "ok" THEN ClassifyHandler(result.message)
    ELSE LET n == Min(Len(result.labels), Len(result.scores))
             predictions ==
                 [i \in 1..n |->
                     InterventionPrediction(intervention_keys[i], result.scores[i])]
         IN [state |-> "done", value |-> SortByConfidenceDesc(predictions)]

(***************************************************************************)
(* The similarity oracle (embedding + find_similar_conversations rpc) and  *)
(* semantic_search.  A response text is kept as its conversation and its   *)
(* length in characters.                                                   *)
(***************************************************************************)
ResponseLength == [i \in 1..(MaxResults + 1) |-> IF i % 2 = 1 THEN 150 ELSE 40]

SearchRow(i) ==
    [conversation_id    |-> i,
     patient_question   |-> [conversation |-> i, chars |-> 60],
     counselor_response |-> [conversation |-> i, chars |-> ResponseLength[i]],
     similarity_score   |-> 900 - 100 * i]

\* the rpc raises, or returns response.data with 0..MaxResults rows
SearchOracleOutcomes ==
    {[status |-> "error", message |-> "connection refused"]} \cup
    {[status |-> "ok", data |-> [i \in 1..n |-> SearchRow(i)]] : n \in 0..MaxResults}

SemanticSearchResult(item) ==
    [conversation_id    |-> item.conversation_id,
     patient_question   |-> item.patient_question,
     counselor_response |-> item.counselor_response,
     similarity_score   |-> item.similarity_score]

\* a handler that logs and re-raises
SearchHandlerReraise(message) == [state |-> "raised", message |-> message]

\* "except Exception as e: ... return []"
SearchHandler(message) == [state |-> "done", value |-> <<>>]

semantic_search(outcome) ==
    IF outcome.status # "ok" THEN SearchHandler(outcome.message)
    ELSE [state |-> "done",
          value |-> [i \in 1..Len(outcome.data) |-> SemanticSearchResult(outcome.data[i])]]

(***************************************************************************)
(* _generate_response_patterns.                                            *)
(***************************************************************************)
\* text[:100]
Truncate(text, n) == [conversation |-> text.conversation, chars |-> Min(text.chars, n)]

ExamplePattern(result) ==
    [source |-> "example", excerpt |-> Truncate(result.counselor_response, 100)]

InterventionSentence ==
    [k \in Keys |->
       CASE k = "validation_empathy" ->
              "Acknowledge and validate the person's feelings with empathetic language"
         [] k = "cognitive_restructuring" ->
              "Help explore and challenge any unhelpful thought patterns"
         [] k = "behavioral_activation" ->
              "Encourage specific actions or behavioral changes"
         [] k = "mindfulness_grounding" ->
              "Suggest mindfulness or grounding techniques for present-moment awareness"
         [] k = "problem_solving" ->
              "Guide through structured problem-solving approaches"
         [] k = "psychoeducation" ->
              "Provide relevant information or normalize the experience"]

InterventionPattern(p) ==
    [source |-> "intervention", text |-> InterventionSentence[p.intervention]]

\* one example pattern for every retrieved example
generate_response_patterns_every_example(results, primary) ==
    [i \in 1..Len(results) |-> ExamplePattern(results[i])]
    \o [i \in 1..Len(primary) |-> InterventionPattern(primary[i])]

generate_response_patterns(results, primary) ==
    (IF results # <<>> THEN <<ExamplePattern(results[1])>> ELSE <<>>)
    \o [i \in 1..Len(primary) |-> InterventionPattern(primary[i])]

(***************************************************************************)
(* synthesize_therapeutic_context.  The prediction objects are shared by   *)
(* the list passed in, the context's intervention_predictions and its      *)
(* primary_interventions, so forcing is_primary on validation_empathy      *)
(* shows in all three.                                                     *)
(***************************************************************************)
\* the baseline category looked up under another key
ValidationEmpathyIndexOtherKey(predictions) ==
    IF \E i \in 1..Len(predictions) : predictions[i].intervention = "validation"
    THEN CHOOSE i \in 1..Len(predictions) :
            /\ predictions[i].intervention = "validation"
            /\ \A j \in 1..(i - 1) : predictions[j].intervention # "validation"
    ELSE 0

\* next(p for p in predictions if p.intervention == 'validation_empathy')
ValidationEmpathyIndex(predictions) ==
    IF \E i \in 1..Len(predictions) : predictions[i].intervention = VE
    THEN CHOOSE i \in 1..Len(predictions) :
            /\ predictions[i].intervention = VE
            /\ \A j \in 1..(i - 1) : predictions[j].intervention # VE
    ELSE 0

\* no baseline override
MustForceNever(predictions) == FALSE

\* "if validation_empathy and not validation_empathy.is_primary"
MustForce(predictions) ==
    LET i == ValidationEmpathyIndex(predictions)
    IN i # 0 /\ ~predictions[i].is_primary

\* an override that sets is_predicted along with is_primary
ForcedPredictionsAlsoPredicted(predictions) ==
    IF MustForce(predictions)
    THEN [predictions EXCEPT ![ValidationEmpathyIndex(predictions)].is_primary = TRUE,
                             ![ValidationEmpathyIndex(predictions)].is_predicted = TRUE]
    ELSE predictions

\* the prediction list after the call
ForcedPredictions(predictions) ==
    IF MustForce(predictions)
    THEN [predictions EXCEPT ![ValidationEmpathyIndex(predictions)].is_primary = TRUE]
    ELSE predictions

\* the forced entry put at the head of the primary list
PrimaryInterventionsForcedFirst(predictions) ==
    LET filtered == SelectSeq(predictions, IsPrimary)
    IN IF MustForce(predictions)
       THEN <<ForcedPredictions(predictions)[ValidationEmpathyIndex(predictions)]>>
            \o filtered
       ELSE filtered

PrimaryInterventions(predictions) ==
    LET filtered == SelectSeq(predictions, IsPrimary)
    IN IF MustForce(predictions)
       THEN Append(filtered,
                   ForcedPredictions(predictions)[ValidationEmpathyIndex(predictions)])
       ELSE filtered

\* np.mean: sum / count, kept as a fraction; the mean of no values is 0/0 (nan)
Mean(predictions) == [num |-> SumConfidence(predictions), den |-> Len(predictions)]

\* mean and max taken over the primary entries only
ConfidenceSummaryOverPrimary(predictions, primary) ==
    [mean_confidence |-> Mean(primary),
     max_confidence  |-> IF primary # <<>> THEN MaxConfidence(primary) ELSE 0,
     primary_count   |-> Len(primary),
     predicted_count |-> Len(SelectSeq(predictions, IsPredicted))]

ConfidenceSummary(predictions, primary) ==
    [mean_confidence |-> Mean(predictions),
     max_confidence  |-> IF predictions # <<>> THEN MaxConfidence(predictions) ELSE 0,
     primary_count   |-> Len(primary),
     predicted_count |-> Len(SelectSeq(predictions, IsPredicted))]

\* validation_empathy appended whether or not it is primary already
synthesize_therapeutic_context_append_always(query, results, predictions) ==
    LET i       == ValidationEmpathyIndex(predictions)
        after   == ForcedPredictions(predictions)
        primary == IF i # 0
                   THEN Append(SelectSeq(predictions, IsPrimary), after[i])
                   ELSE SelectSeq(predictions, IsPrimary)
    IN [query                         |-> query,
        similar_examples              |-> results,
        intervention_predictions      |-> after,
        primary_interventions         |-> primary,
        recommended_response_patterns |-> generate_response_patterns(results, primary),
        confidence_summary            |-> ConfidenceSummary(after, primary)]

synthesize_therapeutic_context(query, results, predictions) ==
    LET primary == PrimaryInterventions(predictions)
        after   == ForcedPredictions(predictions)
    IN [query                         |-> query,
        similar_examples              |-> results,
        intervention_predictions      |-> after,
        primary_interventions         |-> primary,
        recommended_response_patterns |-> generate_response_patterns(results, primary),
        confidence_summary            |-> ConfidenceSummary(after, primary)]

(***************************************************************************)
(* Advice generation (OpenAIService).  Free text from the oracle is kept   *)
(* as the sequence of its sentences (text.split('.')); a sentence is its   *)
(* stripped text, its length, the technique keywords occurring in it and *)
(* whether it contains a consideration or an action indicator word.        *)
(***************************************************************************)
technique_keywords ==
    <<"cognitive behavioral therapy", "cbt", "cognitive restructuring",
      "mindfulness", "meditation", "breathing exercises", "grounding",
      "behavioral activation", "exposure therapy", "systematic desensitization",
      "validation", "empathy", "active listening", "reflective listening",
      "problem-solving", "goal-setting", "coping strategies", "stress management",
      "relaxation techniques", "progressive muscle relaxation", "guided imagery">>

\* technique.replace("_", " ").title()
TitleCase ==
    <<"Cognitive Behavioral Therapy", "Cbt", "Cognitive Restructuring",
      "Mindfulness", "Meditation", "Breathing Exercises", "Grounding",
      "Behavioral Activation", "Exposure Therapy", "Systematic Desensitization",
      "Validation", "Empathy", "Active Listening", "Reflective Listening",
      "Problem-Solving", "Goal-Setting", "Coping Strategies", "Stress Management",
      "Relaxation Techniques", "Progressive Muscle Relaxation", "Guided Imagery">>

DefaultTechniques == <<"Active Listening", "Validation", "Empathetic Responding">>

DefaultConsiderations ==
    <<"Monitor patient's emotional state and safety",
      "Maintain therapeutic boundaries and professional ethics",
      "Consider referral to specialized mental health services if needed">>

DefaultNextSteps ==
    <<"Validate patient's feelings and experiences",
      "Explore coping strategies and resources",
      "Schedule follow-up to monitor progress">>

\* no truncation
PrefixWhole(s, n) == s

\* s[:n]
Prefix(s, n) == SubSeq(s, 1, Min(Len(s), n))

TextKeywords(text) == UNION {text[i].keywords : i \in 1..Len(text)}

RECURSIVE MatchTechniques(_, _, _)
MatchTechniques(text, i, techniques) ==
    IF i > Len(technique_keywords) THEN techniques
    ELSE MatchTechniques(text, i + 1,
            IF /\ technique_keywords[i] \in TextKeywords(text)
               /\ \A j \in 1..Len(techniques) : techniques[j] # TitleCase[i]
            THEN Append(techniques, TitleCase[i])
            ELSE techniques)

extract_therapeutic_techniques(text) ==
    LET techniques == MatchTechniques(text, 1, <<>>)
    IN Prefix(IF techniques = <<>> THEN DefaultTechniques ELSE techniques, 3)

\* the stripped sentence, as it is stored in the list
SentenceText(sentence) == sentence.id

RECURSIVE ScanSentences(_, _, _, _)
ScanSentences(text, i, field, found) ==
    IF i > Len(text) THEN found
    ELSE ScanSentences(text, i + 1, field,
            IF /\ text[i][field]
               /\ text[i].chars > 20
               /\ \A j \in 1..Len(found) : found[j] # SentenceText(text[i])
            THEN Append(found, SentenceText(text[i]))
            ELSE found)

extract_considerations(text) ==
    LET considerations == ScanSentences(text, 1, "consideration", <<>>)
    IN Prefix(IF considerations = <<>>
              THEN DefaultConsiderations
              ELSE considerations, 3)

extract_next_steps(text) ==
    LET next_steps == ScanSentences(text, 1, "action", <<>>)
    IN Prefix(IF next_steps = <<>>
              THEN DefaultNextSteps
              ELSE next_steps, 3)

(***************************************************************************)
(* _calculate_advice_confidence, in thousandths.                           *)
(***************************************************************************)
\* round(n / d, 0), halves to even
RoundDiv(n, d) ==
    LET q == n \div d
        r == n % d
    IN IF 2 * r < d THEN q
       ELSE IF 2 * r > d THEN q + 1
       ELSE IF q % 2 = 0 THEN q ELSE q + 1

\* the x1.1 boost applied to a single primary intervention as well
calculate_advice_confidence_boost_always(primary) ==
    IF primary = <<>> THEN 300
    ELSE LET total == SumConfidence(primary)
             n     == Len(primary)
         IN IF total * 11 >= 950 * n * 10 THEN 950
            ELSE RoundDiv(total * 11, n * 10)

calculate_advice_confidence(primary) ==
    IF primary = <<>> THEN 300
    ELSE LET total == SumConfidence(primary)
             n     == Len(primary)
         IN IF n >= 2
            THEN \* min(0.95, avg * 1.1)
                 IF total * 11 >= 950 * n * 10 THEN 950
                 ELSE RoundDiv(total * 11, n * 10)
            ELSE RoundDiv(total, n)

generate_reasoning(primary, techniques) ==
    IF primary = <<>>
    THEN [template |-> "Based on general therapeutic best practices and evidence-based approaches."]
    ELSE [template   |-> "Based on {labels} interventions (confidence scores: {scores}), recommended techniques include {techniques}.",
          labels     |-> [i \in 1..Len(primary) |-> primary[i].label],
          scores     |-> [i \in 1..Len(primary) |-> primary[i].confidence],
          techniques |-> techniques]

FallbackText(primary) ==
    IF primary # <<>>
    THEN [kind |-> "fallback", top |-> primary[1].label]
    ELSE [kind |-> "fallback", top |-> "therapeutic alliance"]

generate_fallback_advice(primary) ==
    [advice_text            |-> FallbackText(primary),
     therapeutic_techniques |-> DefaultTechniques,
     considerations         |-> DefaultConsiderations,
     next_steps             |-> DefaultNextSteps,
     confidence_score       |-> calculate_advice_confidence(primary),
     reasoning              |-> generate_reasoning(primary, DefaultTechniques)]

\* confidence taken from the top primary intervention alone
parse_therapeutic_response_top_confidence(text, primary) ==
    LET techniques == extract_therapeutic_techniques(text)
    IN [advice_text            |-> [kind |-> "oracle", sentences |-> text],
        therapeutic_techniques |-> techniques,
        considerations         |-> extract_considerations(text),
        next_steps             |-> extract_next_steps(text),
        confidence_score       |-> calculate_advice_confidence(Prefix(primary, 1)),
        reasoning              |-> generate_reasoning(primary, techniques)]

parse_therapeutic_response(text, primary) ==
    LET techniques == extract_therapeutic_techniques(text)
    IN [advice_text            |-> [kind |-> "oracle", sentences |-> text],
        therapeutic_techniques |-> techniques,
        considerations         |-> extract_considerations(text),
        next_steps             |-> extract_next_steps(text),
        confidence_score       |-> calculate_advice_confidence(primary),
        reasoning              |-> generate_reasoning(primary, techniques)]

(***************************************************************************)
(* The advice oracle (chat.completions.create) and what one call can give. *)
(***************************************************************************)
Sentence(id, chars, keywords, consideration, action) ==
    [id |-> id, chars |-> chars, keywords |-> keywords,
     consideration |-> consideration, action |-> action]

AdviceTexts ==
    { <<>>,
      << Sentence("Use mindfulness and grounding with validation", 45,
                  {"mindfulness", "grounding", "validation"}, FALSE, FALSE),
         Sentence("Try cbt", 7, {"cbt"}, FALSE, TRUE),
         Sentence("Consider the risk of crisis and refer when needed", 49, {}, TRUE, FALSE),
         Sentence("Begin to practice breathing exercises every morning", 51,
                  {"breathing exercises"}, FALSE, TRUE) >>,
      << Sentence("It is important to note the safety plan, then follow up", 55,
                  {}, TRUE, TRUE),
         Sentence("Be aware of professional help available in the area", 51, {}, TRUE, FALSE),
         Sentence("Keep in mind that referral may become necessary", 47, {}, TRUE, FALSE),
         Sentence("Consider an emergency contact for the patient", 45, {}, TRUE, FALSE),
         Sentence("It is important to note the safety plan, then follow up", 55,
                  {}, TRUE, TRUE) >> }

\* no client configured; the call raises; no choice or no content; free text
AdviceOracleOutcomes ==
    {[status |-> "no_client"], [status |-> "raises"],
     [status |-> "no_choices"], [status |-> "no_content"]} \cup
    {[status |-> "text", content |-> t] : t \in AdviceTexts}

\* the dictionaries the API wrapper hands to the advice generator
PrimaryDicts(primary) ==
    [i \in 1..Len(primary) |->
        [intervention |-> primary[i].intervention,
         label        |-> primary[i].label,
         confidence   |-> primary[i].confidence]]

\* what the body of the try block comes to: a value or an exception
AdviceTryBody(outcome, primary) ==
    CASE outcome.status = "raises"     -> [exc |-> "APIError"]
      [] outcome.status = "no_choices" -> [exc |-> "IndexError"]
      [] outcome.status = "no_content" -> [exc |-> "AttributeError"]
      [] outcome.status = "text"       ->
             [exc |-> "none",
              value |-> parse_therapeutic_response(outcome.content, primary)]

\* a handler for the oracle's own error class only
AdviceHandlerCatchesApiErrorOnly(exc) == exc = "APIError"

\* "except Exception as e": every exception class the body can raise
AdviceHandlerCatches(exc) == exc \in {"APIError", "IndexError", "AttributeError"}

\* generate_therapeutic_advice: the returned advice, or a propagated exception
generate_therapeutic_advice(outcome, primary) ==
    IF outcome.status = "no_client"
    THEN [raised |-> FALSE, path |-> "fallback",
          value |-> generate_fallback_advice(primary)]
    ELSE LET body == AdviceTryBody(outcome, primary)
         IN IF body.exc = "none"
            THEN [raised |-> FALSE, path |-> "oracle", value |-> body.value]
            ELSE IF AdviceHandlerCatches(body.exc)
                 THEN [raised |-> FALSE, path |-> "fallback",
                       value |-> generate_fallback_advice(primary)]
                 ELSE [raised |-> TRUE, path |-> "none", exc |-> body.exc]

(***************************************************************************)
(* get_therapeutic_response of TherapeuticInferenceService, followed by    *)
(* the advice generation the API wrapper runs on the returned context.     *)
(***************************************************************************)
Query == "I feel anxious about work"

Pending == [state |-> "pending"]

NoContext == [kind |-> "none"]

NoAdvice == [raised |-> FALSE, path |-> "none"]

NoResponse == [raised |-> FALSE, kind |-> "none"]

NoCalls == [retriever |-> 0, classifier |-> 0, advice |-> 0]

\* a failed call repeated once
AdviceOracleCallsWithRetry(outcome) ==
    IF outcome.status = "no_client" THEN 0
    ELSE IF outcome.status = "raises" THEN 2 ELSE 1

\* chat.completions.create is reached only with a client, and once
AdviceOracleCalls(outcome) == IF outcome.status = "no_client" THEN 0 ELSE 1

\* _format_therapeutic_response plus the llm_advice entry (the timestamp is
\* wall-clock time and is left out)
format_therapeutic_response(ctx, llm_advice) ==
    [query                         |-> ctx.query,
     similar_examples              |-> ctx.similar_examples,
     intervention_predictions      |-> ctx.intervention_predictions,
     primary_interventions         |-> PrimaryDicts(ctx.primary_interventions),
     recommended_response_patterns |-> ctx.recommended_response_patterns,
     confidence_summary            |-> ctx.confidence_summary,
     llm_advice                    |-> llm_advice]

\* TherapeuticServiceAPI.get_therapeutic_response after the context: an
\* exception of the advice generator is logged and raised again
api_get_therapeutic_response(ctx, generated) ==
    IF generated.raised
    THEN [raised |-> TRUE, kind |-> "exception", exc |-> generated.exc]
    ELSE [raised |-> FALSE, kind |-> "response",
          value |-> format_therapeutic_response(ctx, generated.value)]

\* the except branch of get_therapeutic_response
ErrorContext(query, message) ==
    [query                         |-> query,
     similar_examples              |-> <<>>,
     intervention_predictions      |-> <<>>,
     primary_interventions         |-> <<>>,
     recommended_response_patterns |-> <<[source |-> "error", text |-> message]>>,
     confidence_summary            |-> [error |-> message]]

\* "_service = None" and the requests the server has accepted but not yet run
Requests == 1..NumRequests

NoService == 0

CreatedTask == [pc |-> "created", got |-> NoService]

InitService ==
    /\ service = NoService
    /\ constructed = 0
    /\ tasks = [r \in Requests |-> CreatedTask]
    /\ running = 0

Init ==
    /\ InitService
    /\ pc = "start"
    /\ searchOutcome = [status |-> "pending"]
    /\ searchTask = Pending
    /\ classifierResult = ClassifierPending
    /\ classifyTask = Pending
    /\ context = NoContext
    /\ adviceOutcome = [status |-> "pending"]
    /\ advice = NoAdvice
    /\ response = NoResponse
    /\ calls = NoCalls

\* asyncio.gather(self.semantic_search(query, top_k=3), self.classify_interventions(query))
Gather ==
    /\ pc = "start"
    /\ pc' = "gathering"
    /\ UNCHANGED <<searchOutcome, searchTask, classifierResult, classifyTask,
                   context, adviceOutcome, advice, response, calls>>
    /\ UNCHANGED serviceVars

SemanticSearch ==
    /\ pc = "gathering"
    /\ searchTask.state = "pending"
    /\ \E outcome \in SearchOracleOutcomes :
          /\ searchOutcome' = outcome
          /\ searchTask' = semantic_search(outcome)
    /\ calls' = [calls EXCEPT !.retriever = @ + 1]
    /\ UNCHANGED <<pc, classifierResult, classifyTask, context, adviceOutcome, advice,
                   response>>
    /\ UNCHANGED serviceVars

\* the classify_interventions branch, for the oracle's answers to the raw
\* score vectors given
ClassifyOver(vectors) ==
    /\ pc = "gathering"
    /\ classifyTask.state = "pending"
    /\ \E result \in {ClassifierFailure} \cup
                     {ClassifierOracle(raw, order) : raw \in vectors, order \in OracleOrders} :
          /\ classifierResult' = result
          /\ classifyTask' = classify_interventions(result)
    /\ calls' = [calls EXCEPT !.classifier = @ + 1]
    /\ UNCHANGED <<pc, searchOutcome, searchTask, context, adviceOutcome, advice,
                   response>>
    /\ UNCHANGED serviceVars

ClassifyInterventions == ClassifyOver(RawVectors)

\* a pipeline instead of a join: synthesis as soon as one branch has a result
SynthesizeOnFirstResult ==
    /\ pc = "gathering"
    /\ searchTask.state = "done" \/ classifyTask.state = "done"
    /\ context' = synthesize_therapeutic_context(Query,
                      IF searchTask.state = "done" THEN searchTask.value ELSE <<>>,
                      IF classifyTask.state = "done" THEN classifyTask.value ELSE <<>>)
    /\ classifyTask' = IF classifyTask.state = "done"
                       THEN [classifyTask EXCEPT !.value = ForcedPredictions(@)]
                       ELSE classifyTask
    /\ pc' = "returned"
    /\ UNCHANGED <<searchOutcome, searchTask, classifierResult, adviceOutcome, advice,
                   response, calls>>
    /\ UNCHANGED serviceVars

\* the await returns (or raises the first exception of a branch); the context
\* is synthesized, or the except branch builds the error context
Synthesize ==
    /\ pc = "gathering"
    /\ \/ searchTask.state = "done" /\ classifyTask.state = "done"
       \/ searchTask.state = "raised"
       \/ classifyTask.state = "raised"
    /\ IF searchTask.state = "raised"
       THEN /\ context' = ErrorContext(Query, searchTask.message)
            /\ UNCHANGED classifyTask
       ELSE IF classifyTask.state = "raised"
       THEN /\ context' = ErrorContext(Query, classifyTask.message)
            /\ UNCHANGED classifyTask
       ELSE /\ context' = synthesize_therapeutic_context(Query, searchTask.value,
                                                        classifyTask.value)
            /\ classifyTask' = [classifyTask EXCEPT !.value = ForcedPredictions(@)]
    /\ pc' = "returned"
    /\ UNCHANGED <<searchOutcome, searchTask, classifierResult, adviceOutcome, advice,
                   response, calls>>
    /\ UNCHANGED serviceVars

\* the rest of TherapeuticServiceAPI.get_therapeutic_response once the context
\* is there: openai_service.generate_therapeutic_advice, then the response
GenerateAdvice ==
    /\ pc = "returned"
    /\ \E outcome \in AdviceOracleOutcomes :
          /\ adviceOutcome' = outcome
          /\ advice' = generate_therapeutic_advice(outcome,
                           PrimaryDicts(context.primary_interventions))
          /\ calls' = [calls EXCEPT !.advice = @ + AdviceOracleCalls(outcome)]
    /\ response' = api_get_therapeutic_response(context, advice')
    /\ pc' = "done"
    /\ UNCHANGED <<searchOutcome, searchTask, classifierResult, classifyTask, context>>
    /\ UNCHANGED serviceVars

\* one call of get_therapeutic_response, up to the returned context
Next ==
    \/ Gather
    \/ SemanticSearch
    \/ ClassifyInterventions
    \/ Synthesize

Spec == Init /\ [][Next]_vars

(***************************************************************************)
(* synthesize_therapeutic_context on its own: the request starts where the *)
(* gather has returned, with any search outcome and any classification     *)
(* (or a failed one), and the synthesis is applied to the two results.     *)
(***************************************************************************)
InitSynthesis ==
    /\ InitService
    /\ pc = "gathering"
    /\ searchOutcome \in SearchOracleOutcomes
    /\ searchTask = semantic_search(searchOutcome)
    /\ classifierResult \in
          {ClassifierFailure} \cup
          {ClassifierOracle(raw, order) : raw \in RawVectors, order \in OracleOrders}
    /\ classifyTask = classify_interventions(classifierResult)
    /\ context = NoContext
    /\ adviceOutcome = [status |-> "pending"]
    /\ advice = NoAdvice
    /\ response = NoResponse
    /\ calls = [NoCalls EXCEPT !.retriever = 1, !.classifier = 1]

NextSynthesis == Synthesize

SpecSynthesis == InitSynthesis /\ [][NextSynthesis]_vars

(***************************************************************************)
(* Advice generation on returned contexts: the request starts where        *)
(* get_therapeutic_response has returned, with the context synthesized     *)
(* from any search outcome and any classification over AdviceScores (or a  *)
(* failed classification).                                                 *)
(***************************************************************************)
AdviceScores == {200, 600, 1000}

InitAdvice ==
    /\ InitService
    /\ pc = "returned"
    /\ searchOutcome \in SearchOracleOutcomes
    /\ searchTask = semantic_search(searchOutcome)
    /\ classifierResult \in
          {ClassifierFailure} \cup
          {ClassifierOracle(raw, "by_score") : raw \in [Keys -> AdviceScores]}
    /\ classifyTask =
          [classify_interventions(classifierResult) EXCEPT !.value = ForcedPredictions(@)]
    /\ context = synthesize_therapeutic_context(Query, searchTask.value,
                      classify_interventions(classifierResult).value)
    /\ adviceOutcome = [status |-> "pending"]
    /\ advice = NoAdvice
    /\ response = NoResponse
    /\ calls = [NoCalls EXCEPT !.retriever = 1, !.classifier = 1]

NextAdvice == GenerateAdvice

SpecAdvice == InitAdvice /\ [][NextAdvice]_vars

(***************************************************************************)
(* One request through TherapeuticServiceAPI.get_therapeutic_response,     *)
(* from the gather to the response, with classifications over AdviceScores *)
(* and with cancellation of the request while it awaits the gather.        *)
(***************************************************************************)
ApiClassifyInterventions == ClassifyOver([Keys -> AdviceScores])

Cancelled == [state |-> "cancelled"]

\* a handler that catches everything (bare except / except BaseException)
ResponseHandlerCatchesAll(exc) == TRUE

\* "except Exception as e" of get_therapeutic_response: asyncio.CancelledError
\* derives from BaseException and passes through
ResponseHandlerCatches(exc) == exc # "CancelledError"

\* the task awaiting the gather is cancelled: the gather cancels every branch
\* that has not completed and CancelledError is raised at the await
Cancel ==
    /\ pc = "gathering"
    /\ searchTask' = IF searchTask.state = "pending" THEN Cancelled ELSE searchTask
    /\ classifyTask' = IF classifyTask.state = "pending" THEN Cancelled ELSE classifyTask
    /\ IF ResponseHandlerCatches("CancelledError")
       THEN /\ context' = ErrorContext(Query, "cancelled")
            /\ pc' = "returned"
       ELSE /\ context' = context
            /\ pc' = "cancelled"
    /\ UNCHANGED <<searchOutcome, classifierResult, adviceOutcome, advice, response, calls>>
    /\ UNCHANGED serviceVars

NextApi ==
    \/ Gather
    \/ SemanticSearch
    \/ ApiClassifyInterventions
    \/ Synthesize
    \/ GenerateAdvice
    \/ Cancel

SpecApi == Init /\ [][NextApi]_vars

(***************************************************************************)
(* One request through TherapeuticServiceAPI.classify_interventions (the   *)
(* classify-interventions operation): the classification alone, without    *)
(* retrieval and without synthesis.                                        *)
(***************************************************************************)
\* the dictionary the wrapper builds from the predictions; an exception of
\* classify_interventions is logged and raised again
api_classify_interventions(task) ==
    IF task.state = "raised"
    THEN [raised |-> TRUE, kind |-> "exception", exc |-> task.message]
    ELSE LET predictions == task.value
             primary     == SelectSeq(predictions, IsPrimary)
         IN [raised |-> FALSE, kind |-> "classification",
             value |->
                [predictions           |-> predictions,
                 primary_interventions |-> PrimaryDicts(primary),
                 summary |->
                    [total_predictions |-> Len(predictions),
                     primary_count     |-> Len(primary),
                     predicted_count   |-> Len(SelectSeq(predictions, IsPredicted)),
                     max_confidence    |-> IF predictions # <<>>
                                           THEN MaxConfidence(predictions) ELSE 0]]]

ClassifyRequest ==
    /\ pc = "start"
    /\ \E result \in {ClassifierFailure} \cup
                     {ClassifierOracle(raw, order) : raw \in RawVectors, order \in OracleOrders} :
          /\ classifierResult' = result
          /\ classifyTask' = classify_interventions(result)
    /\ response' = api_classify_interventions(classifyTask')
    /\ calls' = [calls EXCEPT !.classifier = @ + 1]
    /\ pc' = "classified"
    /\ UNCHANGED <<searchOutcome, searchTask, context, adviceOutcome, advice>>
    /\ UNCHANGED serviceVars

NextClassify == ClassifyRequest

SpecClassify == Init /\ [][NextClassify]_vars

(***************************************************************************)
(* Concurrent requests and TherapeuticServiceAPI.get_service.  Every route *)
(* is an "async def" run by one event loop: a request runs from where it   *)
(* is resumed until it suspends at an await that yields or until it ends.  *)
(* Each wrapper method begins with "service = await self.get_service()".   *)
(***************************************************************************)
\* TherapeuticInferenceService(): the instance, or an exception of __init__
\* (a model that does not load, missing configuration, no connection)
ConstructorOutcomes == {"ok", "raises"}

\* a get_service that awaits the construction (run in a worker thread)
GetServiceAwaitsConstruction(label) == label = "construct"

\* the awaits of get_service at which the request yields to the loop: its body
\* has no await expression
GetServiceAwaits(label) == FALSE

\* the loop is idle, or r is the request it is running
MayRun(r) == running = 0 \/ running = r

\* the request the loop runs once r has moved to label: none when r has ended
\* or has suspended, r otherwise
Release(r, label) ==
    IF label \in {"has_service", "failed"} \/ GetServiceAwaits(label) THEN 0 ELSE r

\* the route handler runs up to "service = await self.get_service()"
StartRequest(r) ==
    /\ MayRun(r)
    /\ tasks[r].pc = "created"
    /\ tasks' = [tasks EXCEPT ![r].pc = "get_service"]
    /\ running' = Release(r, "get_service")
    /\ UNCHANGED <<service, constructed>>
    /\ UNCHANGED requestVars

\* "if self._service is None:"
CheckService(r) ==
    /\ MayRun(r)
    /\ tasks[r].pc = "get_service"
    /\ LET label == IF service = NoService THEN "construct" ELSE "return"
       IN /\ tasks' = [tasks EXCEPT ![r].pc = label]
          /\ running' = Release(r, label)
    /\ UNCHANGED <<service, constructed>>
    /\ UNCHANGED requestVars

\* "self._service = TherapeuticInferenceService()"; an exception of the
\* constructor leaves _service as it is and ends the request (the wrapper
\* raises it again, the route answers 500)
ConstructService(r) ==
    /\ MayRun(r)
    /\ tasks[r].pc = "construct"
    /\ \E outcome \in ConstructorOutcomes :
          IF outcome = "ok"
          THEN /\ constructed' = constructed + 1
               /\ service' = constructed + 1
               /\ tasks' = [tasks EXCEPT ![r].pc = "return"]
               /\ running' = Release(r, "return")
          ELSE /\ tasks' = [tasks EXCEPT ![r].pc = "failed"]
               /\ running' = Release(r, "failed")
               /\ UNCHANGED <<service, constructed>>
    /\ UNCHANGED requestVars

\* "return self._service"; the request goes on to await the service's own
\* coroutine, where it suspends
ReturnService(r) ==
    /\ MayRun(r)
    /\ tasks[r].pc = "return"
    /\ tasks' = [tasks EXCEPT ![r].pc = "has_service", ![r].got = service]
    /\ running' = Release(r, "has_service")
    /\ UNCHANGED <<service, constructed>>
    /\ UNCHANGED requestVars

NextService ==
    \E r \in Requests :
        \/ StartRequest(r)
        \/ CheckService(r)
        \/ ConstructService(r)
        \/ ReturnService(r)

SpecService == Init /\ [][NextService]_vars

(***************************************************************************)
(* Properties.                                                             *)
(***************************************************************************)
Returned == pc = "returned"

ClassificationSucceeded == classifierResult.status = "ok"

ClassificationFailed == classifierResult.status = "failed"

all_scores == context.intervention_predictions

primary_scores == context.primary_interventions

EntryOf(scores, key) == {i \in 1..Len(scores) : scores[i].intervention = key}

\* the place of each key in the declaration of the categories
DeclarationOrder ==
    [k \in Keys |-> CHOOSE i \in 1..Len(intervention_keys) : intervention_keys[i] = k]

DeclarationIndex(key) == DeclarationOrder[key]

\* C1: after a successful classification the returned context has a
\* validation_empathy entry, it has is_primary = true whatever its confidence,
\* and it is a member of primary_scores.
C1_ValidationEmpathyAlwaysPrimary ==
    (Returned /\ ClassificationSucceeded) =>
        /\ EntryOf(all_scores, VE) # {}
        /\ \A i \in EntryOf(all_scores, VE) :
              /\ all_scores[i].is_primary
              /\ \E j \in 1..Len(primary_scores) : primary_scores[j] = all_scores[i]

\* C1 witness: a returned context whose validation_empathy confidence is below
\* the primary threshold (and the prediction threshold), yet primary.
C1_Witness ==
    /\ Returned /\ ClassificationSucceeded
    /\ \E i \in EntryOf(all_scores, VE) :
          all_scores[i].confidence < 300 /\ all_scores[i].is_primary

\* C2: every prediction carries the score the oracle returned for the
\* description of its category, whatever order the oracle lists its pairs in.
C2_ScoreAttributedToItsCategory ==
    (classifyTask.state = "done" /\ ClassificationSucceeded) =>
        \A i \in 1..Len(classifyTask.value) :
            classifyTask.value[i].confidence =
                OracleScoreOf(classifierResult,
                              CategoryDescription[classifyTask.value[i].intervention])

\* C3: when the classification oracle fails, the returned context has
\* confidence_summary = {"error": message}, all_scores = [] and primary_scores = [].
C3_FailedClassificationGivesErrorSummary ==
    (Returned /\ ClassificationFailed) =>
        /\ context.confidence_summary = [error |-> classifierResult.message]
        /\ all_scores = <<>>
        /\ primary_scores = <<>>

\* C4: in every returned context predicted_count >= primary_count.
C4_PredictedCountAtLeastPrimaryCount ==
    (Returned /\ "predicted_count" \in DOMAIN context.confidence_summary) =>
        context.confidence_summary.predicted_count >=
            context.confidence_summary.primary_count

\* C5: in every classification result and every returned context, an entry of
\* a category other than validation_empathy that is primary has confidence >= 0.6.
C5_OnlyValidationEmpathyForced ==
    /\ classifyTask.state = "done" =>
          \A i \in 1..Len(classifyTask.value) :
              (classifyTask.value[i].intervention # VE /\ classifyTask.value[i].is_primary)
                  => classifyTask.value[i].confidence >= 600
    /\ Returned =>
          /\ \A i \in 1..Len(all_scores) :
                (all_scores[i].intervention # VE /\ all_scores[i].is_primary)
                    => all_scores[i].confidence >= 600
          /\ \A i \in 1..Len(primary_scores) :
                primary_scores[i].intervention # VE
                    => primary_scores[i].confidence >= 600

\* C5 witness: a returned context where validation_empathy was forced and some
\* other category is below 0.6 (not primary) and another is primary.
C5_Witness ==
    /\ Returned
    /\ \E i, j, k \in 1..Len(all_scores) :
          /\ all_scores[i].intervention = VE
          /\ all_scores[i].confidence < 600 /\ all_scores[i].is_primary
          /\ all_scores[j].intervention # VE
          /\ all_scores[j].confidence >= 300 /\ all_scores[j].confidence < 600
          /\ ~all_scores[j].is_primary
          /\ all_scores[k].intervention # VE /\ all_scores[k].is_primary

SortedWithDeclarationTies(scores) ==
    \A i, j \in 1..Len(scores) :
        i < j =>
            /\ scores[i].confidence >= scores[j].confidence
            /\ scores[i].confidence = scores[j].confidence =>
                  DeclarationIndex(scores[i].intervention)
                      < DeclarationIndex(scores[j].intervention)

\* C6: all_scores is in non-increasing confidence order and entries of equal
\* confidence are in category declaration order.
C6_SortedStable ==
    /\ classifyTask.state = "done" => SortedWithDeclarationTies(classifyTask.value)
    /\ Returned => SortedWithDeclarationTies(all_scores)

\* C6 witness: a returned context with six entries, two of them tied and
\* preceded by a strictly larger one, from scores the oracle listed unsorted.
C6_Witness ==
    /\ Returned /\ Len(all_scores) = 6
    /\ classifierResult.scores[1] < classifierResult.scores[2]
    /\ all_scores[1].confidence > all_scores[2].confidence
    /\ all_scores[2].confidence = all_scores[3].confidence

\* C7: primary_scores is the subsequence of all_scores of the entries with
\* is_primary, in the order of all_scores, hence in non-increasing confidence.
C7_PrimaryIsOrderedSubsequence ==
    Returned =>
        /\ primary_scores = SelectSeq(all_scores, IsPrimary)
        /\ \A i, j \in 1..Len(primary_scores) :
              i < j => primary_scores[i].confidence >= primary_scores[j].confidence

\* C7 witness: validation_empathy forced at a low confidence, placed after a
\* cognitive_restructuring entry of higher confidence.
C7_Witness ==
    /\ Returned /\ Len(primary_scores) = 2
    /\ primary_scores[1].intervention = "cognitive_restructuring"
    /\ primary_scores[1].confidence >= 600
    /\ primary_scores[2].intervention = VE
    /\ primary_scores[2].confidence < 300

RetrievalFailedOrEmpty == searchOutcome.status = "error" \/
                          (searchOutcome.status = "ok" /\ searchOutcome.data = <<>>)

FoundOutcomes == {o \in SearchOracleOutcomes : o.status = "ok" /\ o.data # <<>>}

\* C8: when the similarity oracle raises or finds nothing, semantic_search
\* returns the empty list without raising; the context then has no examples and
\* no example pattern, exactly one sentence per primary entry, and the all_scores
\* and primary_scores that a successful retrieval would have given.
C8_RetrievalFailureDegradesToNoExamples ==
    /\ (searchTask.state # "pending" /\ RetrievalFailedOrEmpty) =>
          (searchTask.state = "done" /\ searchTask.value = <<>>)
    /\ (Returned /\ RetrievalFailedOrEmpty) =>
          /\ context.similar_examples = <<>>
          /\ \A i \in 1..Len(context.recommended_response_patterns) :
                context.recommended_response_patterns[i].source # "example"
          /\ context.recommended_response_patterns =
                [i \in 1..Len(primary_scores) |-> InterventionPattern(primary_scores[i])]
          /\ LET classified == classify_interventions(classifierResult).value
             IN \A o \in FoundOutcomes :
                   LET other == synthesize_therapeutic_context(Query,
                                    semantic_search(o).value, classified)
                   IN /\ other.similar_examples # <<>>
                      /\ all_scores = other.intervention_predictions
                      /\ primary_scores = other.primary_interventions

\* C8 witness: the oracle raised, classification succeeded, and the context has
\* two primary sentences and no example.
C8_Witness ==
    /\ Returned /\ searchOutcome.status = "error" /\ ClassificationSucceeded
    /\ context.similar_examples = <<>>
    /\ Len(context.recommended_response_patterns) = 2

\* C9: generate_therapeutic_advice returns an advice for every outcome of the
\* advice oracle and never raises; when there is no client or the call fails
\* (or yields no message) the advice is the fallback advice.
C9_AdviceNeverRaises ==
    pc = "done" =>
        /\ ~advice.raised
        /\ "value" \in DOMAIN advice
        /\ adviceOutcome.status # "text" =>
              advice.value =
                  generate_fallback_advice(PrimaryDicts(context.primary_interventions))

\* C9 witness: the oracle answered without a message content and the fallback
\* advice for a non-empty primary list was returned.
C9_Witness ==
    /\ pc = "done" /\ adviceOutcome.status = "no_content"
    /\ ~advice.raised /\ advice.path = "fallback"
    /\ context.primary_interventions # <<>>

\* C10: whatever the two branches did, get_therapeutic_response returns a
\* context and no branch raises into the gather; a failed retrieval leaves the
\* six classification entries in place and a failed classification leaves the
\* retrieved examples in place.
C10_BranchFailuresIsolated ==
    /\ searchTask.state # "raised" /\ classifyTask.state # "raised"
    /\ Returned =>
          /\ context # NoContext
          /\ ClassificationSucceeded => Len(all_scores) = Len(intervention_keys)
          /\ searchOutcome.status = "ok" =>
                context.similar_examples = semantic_search(searchOutcome).value

\* C10 witness: classification failed, retrieval found rows, and the returned
\* context still carries them.
C10_Witness ==
    /\ Returned /\ ClassificationFailed
    /\ searchOutcome.status = "ok" /\ context.similar_examples # <<>>

\* C11: both branches are launched by one gather before any result is used, and
\* while a branch has not completed no context exists; a returned context was
\* synthesized with both branches done.
C11_ForkJoin ==
    /\ pc = "start" => (searchTask.state = "pending" /\ classifyTask.state = "pending")
    /\ (searchTask.state # "done" \/ classifyTask.state # "done") => context = NoContext
    /\ pc \in {"returned", "done"} =>
          /\ searchTask.state = "done" /\ classifyTask.state = "done"
          /\ context.similar_examples = searchTask.value
          /\ context.intervention_predictions = classifyTask.value

\* C11 witness: classification has completed first with six entries, retrieval
\* is still outstanding, and nothing has been synthesized.
C11_Witness ==
    /\ pc = "gathering"
    /\ classifyTask.state = "done" /\ Len(classifyTask.value) = 6
    /\ searchTask.state = "pending"
    /\ context = NoContext

KeysOf(scores) == {scores[i].intervention : i \in 1..Len(scores)}

\* C12: in a returned context all_scores has exactly six entries, one for each
\* category key, or is empty and the classification failed.
C12_ClassificationAtomic ==
    Returned =>
        \/ /\ ClassificationSucceeded
           /\ Len(all_scores) = 6
           /\ KeysOf(all_scores) = Keys
        \/ /\ ClassificationFailed
           /\ all_scores = <<>>

\* C12 witness: a successful classification in which some categories are not
\* predicted, all six still present in the context.
C12_Witness ==
    /\ Returned /\ ClassificationSucceeded /\ Len(all_scores) = 6
    /\ \E i, j \in 1..6 : ~all_scores[i].is_predicted /\ all_scores[j].is_predicted

AdviceReturned == pc = "done" /\ ~advice.raised

AdvicePrimary == PrimaryDicts(context.primary_interventions)

\* c is n/d rounded to the nearest integer
Nearest(c, n, d) == 2 * c * d - 2 * n <= d /\ 2 * n - 2 * c * d <= d

ExpectedConfidence(c, primary) ==
    LET n     == Len(primary)
        total == SumConfidence(primary)
    IN /\ n = 0 => c = 300
       /\ n = 1 => c = primary[1].confidence
       /\ n >= 2 => IF total * 11 >= 950 * n * 10
                    THEN c = 950
                    ELSE Nearest(c, total * 11, n * 10)

\* C13: the advice confidence is 0.3 without primaries, the primary confidence
\* with one, min(0.95, mean * 1.1) with two or more, rounded to 3 decimals;
\* primaries 0.8 and 0.1 give 0.495.
C13_AdviceConfidence ==
    /\ AdviceReturned =>
          ExpectedConfidence(advice.value.confidence_score, AdvicePrimary)
    /\ calculate_advice_confidence(<<[confidence |-> 800], [confidence |-> 100]>>) = 495

\* C13 witness: three primaries whose boosted mean is below the cap and is not a
\* whole number of thousandths.
C13_Witness ==
    /\ AdviceReturned /\ Len(AdvicePrimary) = 3
    /\ advice.value.confidence_score < 950
    /\ advice.value.confidence_score * 30 # SumConfidence(AdvicePrimary) * 11

FallbackFor(primary) == generate_fallback_advice(primary)

\* C14 (as stated): an advice built from oracle text has the confidence and the
\* reasoning of the fallback advice for the same primary_scores.
C14_ReasoningIndependentOfText ==
    (AdviceReturned /\ advice.path = "oracle") =>
        /\ advice.value.confidence_score = FallbackFor(AdvicePrimary).confidence_score
        /\ advice.value.reasoning = FallbackFor(AdvicePrimary).reasoning

\* C14 (amended): the confidence is that of the fallback advice for the same
\* primary_scores; the reasoning names the techniques as well, so it equals the
\* fallback reasoning exactly when primary_scores is empty or the techniques
\* extracted from the text are the three default techniques.
C14_ConfidenceIndependentOfText ==
    (AdviceReturned /\ advice.path = "oracle") =>
        /\ advice.value.confidence_score = FallbackFor(AdvicePrimary).confidence_score
        /\ (advice.value.reasoning = FallbackFor(AdvicePrimary).reasoning)
              <=> (AdvicePrimary = <<>>
                   \/ advice.value.therapeutic_techniques = DefaultTechniques)

\* C14 witness: oracle text naming techniques, two primaries: same confidence as
\* the fallback, different reasoning.
C14_Witness ==
    /\ AdviceReturned /\ advice.path = "oracle" /\ Len(AdvicePrimary) >= 2
    /\ advice.value.therapeutic_techniques # DefaultTechniques
    /\ advice.value.confidence_score = FallbackFor(AdvicePrimary).confidence_score
    /\ advice.value.reasoning # FallbackFor(AdvicePrimary).reasoning

\* C15: when classification fails the returned context has exactly one response
\* pattern, the explanatory failure pattern, also when retrieval found examples.
C15_FailedClassificationGivesFailurePattern ==
    (Returned /\ ClassificationFailed) =>
        /\ Len(context.recommended_response_patterns) = 1
        /\ context.recommended_response_patterns[1].source = "error"

ListLengthOk(list) == Len(list) >= 1 /\ Len(list) <= 3

NoSentenceWith(text, field) ==
    \A i \in 1..Len(text) : ~(text[i][field] /\ text[i].chars > 20)

\* C17: every returned advice has between 1 and 3 techniques, considerations and
\* next steps; a list for which the oracle text has no match is the fixed
\* three-item fallback list.
C17_AdviceListLengths ==
    AdviceReturned =>
        /\ ListLengthOk(advice.value.therapeutic_techniques)
        /\ ListLengthOk(advice.value.considerations)
        /\ ListLengthOk(advice.value.next_steps)
        /\ advice.path = "oracle" =>
              LET text == adviceOutcome.content
              IN /\ TextKeywords(text) = {} =>
                       advice.value.therapeutic_techniques = DefaultTechniques
                 /\ NoSentenceWith(text, "consideration") =>
                       advice.value.considerations = DefaultConsiderations
                 /\ NoSentenceWith(text, "action") =>
                       advice.value.next_steps = DefaultNextSteps

\* C17 witness: oracle text with more than three consideration sentences and no
\* technique keyword: three considerations kept, default techniques.
C17_Witness ==
    /\ AdviceReturned /\ advice.path = "oracle"
    /\ Cardinality({i \in 1..Len(adviceOutcome.content) :
                       adviceOutcome.content[i].consideration}) > 3
    /\ Len(advice.value.considerations) = 3
    /\ advice.value.considerations # DefaultConsiderations
    /\ advice.value.therapeutic_techniques = DefaultTechniques

\* C18: a request whose classification failed still gets a response from the
\* API wrapper: nothing is raised, and the response carries an explanatory
\* text about the failure and an advice (fallback or oracle).
C18_DegradedRequestSucceeds ==
    (pc = "done" /\ ClassificationFailed) =>
        /\ ~response.raised
        /\ response.kind = "response"
        /\ response.value.llm_advice = advice.value
        /\ \E i \in 1..Len(response.value.recommended_response_patterns) :
              response.value.recommended_response_patterns[i].source = "error"

\* C19: in one request each oracle is invoked at most once, a failed call is not
\* repeated, and without a client the advice oracle is not invoked at all.
C19_NoRetries ==
    /\ calls.retriever <= 1 /\ calls.classifier <= 1 /\ calls.advice <= 1
    /\ searchOutcome.status = "error" => calls.retriever = 1
    /\ ClassificationFailed => calls.classifier = 1
    /\ adviceOutcome.status = "raises" => calls.advice = 1
    /\ adviceOutcome.status = "no_client" => calls.advice = 0

\* C19 witness: all three oracles failed in one finished request and each was
\* invoked once.
C19_Witness ==
    /\ pc = "done"
    /\ searchOutcome.status = "error" /\ ClassificationFailed
    /\ adviceOutcome.status = "raises"
    /\ calls = [retriever |-> 1, classifier |-> 1, advice |-> 1]

\* C20: when the request is cancelled while it awaits the gather, no branch is
\* left outstanding (a branch that had not run is cancelled, and never invokes
\* its oracle), no context, advice or response is produced, and no error
\* context stands in for the cancellation.
C20_CancellationPropagates ==
    /\ pc = "cancelled" =>
          /\ searchTask.state \in {"done", "cancelled"}
          /\ classifyTask.state \in {"done", "cancelled"}
          /\ calls.retriever = 0 <=> searchTask = Cancelled
          /\ calls.classifier = 0 <=> classifyTask = Cancelled
          /\ context = NoContext /\ advice = NoAdvice /\ response = NoResponse
    /\ (searchTask = Cancelled \/ classifyTask = Cancelled) => pc = "cancelled"
    /\ context # NoContext => "error" \notin DOMAIN context.confidence_summary

\* C20 witness: retrieval had found rows, classification had not run; the
\* request is cancelled, classification is cancelled, nothing is synthesized.
C20_Witness ==
    /\ pc = "cancelled"
    /\ searchTask.state = "done" /\ searchTask.value # <<>>
    /\ classifyTask = Cancelled
    /\ context = NoContext

Classified == pc = "classified" /\ ~response.raised

\* C21: the classification on its own already applies the baseline override:
\* whatever the raw scores, the classify-interventions response has
\* validation_empathy with is_primary = true, lists it in primary_interventions
\* and counts it in primary_count.
C21_ClassifyAloneAppliesOverride ==
    (Classified /\ ClassificationSucceeded) =>
        LET out == response.value
        IN /\ EntryOf(out.predictions, VE) # {}
           /\ \A i \in EntryOf(out.predictions, VE) : out.predictions[i].is_primary
           /\ EntryOf(out.primary_interventions, VE) # {}
           /\ out.summary.primary_count = Len(out.primary_interventions)
           /\ out.summary.primary_count >= 1

\* C22: in every returned context every entry with is_primary = true has
\* is_predicted = true, validation_empathy forced below its own prediction
\* threshold 0.30 included.
C22_PrimaryImpliesPredicted ==
    Returned =>
        /\ \A i \in 1..Len(all_scores) :
              all_scores[i].is_primary => all_scores[i].is_predicted
        /\ \A i \in 1..Len(primary_scores) : primary_scores[i].is_predicted

\* an entry whose is_primary the override set, against the threshold rule
Forced(p) == p.intervention = VE /\ p.is_primary /\ p.confidence < 600

ThresholdRuleHolds(scores) ==
    \A i \in 1..Len(scores) :
        /\ ~Forced(scores[i]) => (scores[i].is_primary => scores[i].is_predicted)
        /\ scores[i].is_predicted <=>
              scores[i].confidence >= PredictionThreshold[scores[i].intervention]

\* C23: the primary threshold 0.6 is at least every prediction threshold of the
\* table; an entry whose is_primary comes from the threshold rule is predicted
\* whenever it is primary; is_predicted holds exactly when the confidence
\* reaches the category's own threshold.
C23_PrimaryThresholdDominates ==
    /\ \A k \in Keys : 600 >= PredictionThreshold[k]
    /\ classifyTask.state = "done" => ThresholdRuleHolds(classifyTask.value)
    /\ Returned => ThresholdRuleHolds(all_scores)

\* C23 witness: a returned context with an entry exactly on the primary
\* threshold (primary and predicted), a problem_solving entry exactly on its
\* prediction threshold 0.40 (predicted, not primary) and an entry below its
\* threshold (neither).
C23_Witness ==
    /\ Returned
    /\ \E i, j, k \in 1..Len(all_scores) :
          /\ all_scores[i].intervention # VE /\ all_scores[i].confidence = 600
          /\ all_scores[i].is_primary /\ all_scores[i].is_predicted
          /\ all_scores[j].intervention = "problem_solving"
          /\ all_scores[j].confidence = 400
          /\ all_scores[j].is_predicted /\ ~all_scores[j].is_primary
          /\ all_scores[k].intervention = "cognitive_restructuring"
          /\ all_scores[k].confidence = 400
          /\ ~all_scores[k].is_predicted /\ ~all_scores[k].is_primary

\* what classify_interventions returned for this request, before synthesis
Classification == classify_interventions(classifierResult).value

\* q is p with at most the is_primary flag changed
SameButPrimary(p, q) ==
    /\ q.intervention = p.intervention
    /\ q.label = p.label
    /\ q.confidence = p.confidence
    /\ q.is_predicted = p.is_predicted

\* C24: synthesis changes only the is_primary flag of the validation_empathy
\* entry: its confidence, label and is_predicted, every field of the five other
\* entries, and the order and length of all_scores are as classification
\* returned them.
C24_OverrideFrame ==
    Returned =>
        LET before == Classification
        IN /\ Len(all_scores) = Len(before)
           /\ \A i \in 1..Len(all_scores) :
                 IF before[i].intervention = VE
                 THEN SameButPrimary(before[i], all_scores[i])
                 ELSE all_scores[i] = before[i]

\* C24 witness: validation_empathy classified below 0.30 in fourth place, with
\* is_primary false before synthesis and true after, still not predicted.
C24_Witness ==
    /\ Returned /\ Len(all_scores) = 6
    /\ all_scores[4].intervention = VE
    /\ ~Classification[4].is_primary /\ all_scores[4].is_primary
    /\ ~all_scores[4].is_predicted
    /\ all_scores[1].is_primary

ResponsePatterns == context.recommended_response_patterns

Examples == context.similar_examples

\* the number of example-derived patterns at the head of the list
ExampleOffset == IF Examples # <<>> THEN 1 ELSE 0

\* C25: response_patterns starts with the example-derived pattern exactly when
\* examples is non-empty; after it comes one fixed sentence per entry of
\* primary_scores, in the order of primary_scores; its length is
\* len(primary_scores) plus 1 with examples, plus 0 without.
C25_ResponsePatternOrder ==
    Returned =>
        /\ Len(ResponsePatterns) = Len(primary_scores) + ExampleOffset
        /\ Examples # <<>> <=>
              (ResponsePatterns # <<>> /\ ResponsePatterns[1].source = "example")
        /\ Examples # <<>> =>
              ResponsePatterns[1].excerpt.conversation = Examples[1].conversation_id
        /\ \A i \in 1..Len(primary_scores) :
              /\ ResponsePatterns[i + ExampleOffset].source = "intervention"
              /\ ResponsePatterns[i + ExampleOffset].text =
                    InterventionSentence[primary_scores[i].intervention]

\* C25 witness: two retrieved examples and three primary entries, the last of
\* them the forced validation_empathy: four patterns.
C25_Witness ==
    /\ Returned /\ Len(Examples) = 2 /\ Len(primary_scores) = 3
    /\ primary_scores[3].intervention = VE /\ primary_scores[3].confidence < 600
    /\ Len(ResponsePatterns) = 4
    /\ ResponsePatterns[4].text = InterventionSentence[VE]

\* C26: a context synthesized from an empty all_scores has mean = 0.0 and
\* max = 0.0 in its confidence_summary, and primary_count = predicted_count = 0;
\* the mean is a number, not the undefined 0/0.
C26_EmptyScoresGiveZeroSummary ==
    (Returned /\ all_scores = <<>>) =>
        /\ context.confidence_summary.mean_confidence.den # 0
        /\ context.confidence_summary.mean_confidence.num = 0
        /\ context.confidence_summary.max_confidence = 0
        /\ context.confidence_summary.primary_count = 0
        /\ context.confidence_summary.predicted_count = 0

\* m is the largest confidence of scores
IsMaxOf(m, scores) ==
    /\ \E i \in 1..Len(scores) : scores[i].confidence = m
    /\ \A i \in 1..Len(scores) : scores[i].confidence <= m

\* C27: in a context from a successful classification the mean and the max of
\* confidence_summary are taken over all six confidences, primary_count is
\* len(primary_scores) and counts a forced validation_empathy, and
\* predicted_count is the number of entries of all_scores with is_predicted.
C27_SummaryOverAllScores ==
    (Returned /\ ClassificationSucceeded) =>
        LET summary == context.confidence_summary
        IN /\ summary.mean_confidence =
                 [num |-> SumConfidence(all_scores), den |-> 6]
           /\ IsMaxOf(summary.max_confidence, all_scores)
           /\ summary.primary_count = Len(primary_scores)
           /\ summary.primary_count =
                 Cardinality({i \in 1..Len(all_scores) : all_scores[i].is_primary})
           /\ summary.predicted_count =
                 Cardinality({i \in 1..Len(all_scores) : all_scores[i].is_predicted})

\* C27 witness: validation_empathy forced at 0.2 is the only primary entry, and
\* the maximum 0.4 belongs to an entry that is not primary.
C27_Witness ==
    /\ Returned /\ ClassificationSucceeded
    /\ Len(primary_scores) = 1 /\ primary_scores[1].confidence = 200
    /\ context.confidence_summary.max_confidence = 400
    /\ context.confidence_summary.primary_count = 1
    /\ context.confidence_summary.predicted_count >= 1

GenericReasoning == generate_reasoning(<<>>, DefaultTechniques)

\* C28: whenever classification succeeded primary_scores of the returned
\* context is non-empty and contains validation_empathy, and the advice
\* generated from it does not come from the empty-primaries branch: its
\* confidence is computed from the primaries, its reasoning is not the generic
\* one and a fallback text does not name the generic therapeutic alliance.
C28_SuccessfulClassificationHasPrimary ==
    /\ (pc \in {"returned", "done"} /\ ClassificationSucceeded) =>
          /\ primary_scores # <<>>
          /\ EntryOf(primary_scores, VE) # {}
    /\ (AdviceReturned /\ ClassificationSucceeded) =>
          /\ AdvicePrimary # <<>>
          /\ ExpectedConfidence(advice.value.confidence_score, AdvicePrimary)
          /\ advice.value.reasoning # GenericReasoning
          /\ advice.path = "fallback" =>
                advice.value.advice_text.top = AdvicePrimary[1].label

\* C28 witness: every category scored 0.2, so validation_empathy is primary by
\* the override alone, and the fallback advice is built on it.
C28_Witness ==
    /\ AdviceReturned /\ ClassificationSucceeded /\ advice.path = "fallback"
    /\ \A i \in 1..Len(all_scores) : all_scores[i].confidence = 200
    /\ Len(AdvicePrimary) = 1 /\ AdvicePrimary[1].intervention = VE
    /\ advice.value.confidence_score = 200

\* synthesis applied once more to the list the first call left behind
SecondSynthesis ==
    synthesize_therapeutic_context(Query, searchTask.value, classifyTask.value)

\* C29: a second synthesis on the same prediction list, whose
\* validation_empathy entry the first call has set to is_primary = true, returns
\* the same primary_scores (same elements, same order), the same
\* response_patterns and the same counts as the first.
C29_SynthesisIdempotent ==
    Returned =>
        LET second == SecondSynthesis
        IN /\ second.primary_interventions = primary_scores
           /\ second.recommended_response_patterns = ResponsePatterns
           /\ second.confidence_summary.primary_count =
                 context.confidence_summary.primary_count
           /\ second.confidence_summary.predicted_count =
                 context.confidence_summary.predicted_count
           /\ second.intervention_predictions = all_scores

\* C29 witness: the first call forced validation_empathy (classified below 0.6)
\* behind two primary entries, and the list it left carries the forced flag.
C29_Witness ==
    /\ Returned /\ Len(primary_scores) = 3
    /\ primary_scores[3].intervention = VE
    /\ ~Classification[ValidationEmpathyIndex(Classification)].is_primary
    /\ classifyTask.value[ValidationEmpathyIndex(classifyTask.value)].is_primary
    /\ SecondSynthesis.primary_interventions[3].intervention = VE

HasService(r) == tasks[r].pc = "has_service"

\* C30: under any interleaving of concurrent requests calling get_service at
\* most one TherapeuticInferenceService is ever constructed, and every request
\* that gets a service gets that one instance.
C30_SingleServiceInstance ==
    /\ constructed <= 1
    /\ \A r \in Requests :
          HasService(r) => (tasks[r].got # NoService /\ tasks[r].got = service)
    /\ \A r, q \in Requests :
          (HasService(r) /\ HasService(q)) => tasks[r].got = tasks[q].got

\* C30 witness: the constructor raised for one request, a later request
\* constructed the instance, and two requests hold that same instance.
C30_Witness ==
    /\ constructed = 1
    /\ \E r, q, f \in Requests :
          /\ r # q
          /\ HasService(r) /\ HasService(q)
          /\ tasks[r].got = 1 /\ tasks[q].got = 1
          /\ tasks[f].pc = "failed"

====
